---- MODULE Spec2Model ----
(***************************************************************************)
(* Scene graph of ketexon/echo: Node and its lifecycle propagation         *)
(* (node.cpp), the grid game built on it (main.cpp, main.hpp) and the      *)
(* boxed text measurement (node.cpp).  Objects live in a heap of numbered  *)
(* slots; a field of the source is a function from slots to values.        *)
(* Coordinates are floats in the source; every value the modelled code     *)
(* produces is a whole number, so they are integers here.                  *)
(***************************************************************************)
EXTENDS Integers, Sequences, FiniteSets, TLC

VARIABLES
    kind,         \* dynamic type of the object in each slot, "Free" if none
    parent,       \* Node::parent (weak back-reference), NULL if empty
    children,     \* Node::children, in insertion order
    position,     \* Node::position
    initialized,  \* Node::initialized
    active,       \* Node::active
    visible,      \* Node::visible
    rect,         \* RectRenderer::rect
    padding_x,    \* RectContainer::padding_x
    padding_y,    \* RectContainer::padding_y
    grid,         \* Level::grid (owning) and GridNode::grid (weak)
    level,        \* Player::level (weak)
    player,       \* Level::player
    grid_x,       \* GridNode::grid_x
    grid_y,       \* GridNode::grid_y
    selected,     \* Level::selected
    updates,      \* update() calls each node received in the latest update frame
    renders,      \* render() calls each node received in the latest render frame
    crashed,      \* the process died: null dereference or unbounded recursion
    last,         \* the latest call made on the scene: its name, receiver, argument
    calls,        \* number of calls made on the scene so far
    mt,           \* locals of the running MeasureBoxedTextHeight call
    dt            \* locals of the running DrawTextBoxedSelectable call

vars == <<kind, parent, children, position, initialized, active, visible, rect,
          padding_x, padding_y, grid, level, player, grid_x, grid_y, selected,
          updates, renders, crashed, last, calls, mt, dt>>

\* Bounds of the model.
MaxNodes == 14      \* heap slots
TreeNodes == 3      \* nodes of the free-form tree
MaxChildren == 2    \* longest children list the free-form tree builds
MaxCalls == 3       \* calls made on the free-form tree in one run
MaxSteps == 6       \* calls made in one run that moves nodes or runs frames
MaxFrames == 3      \* calls made in one run that switches lifecycle flags
MaxLen == 4         \* bytes of a measured text
MaxDim == 7         \* widest and highest grid that is clamped to

\* An empty shared_ptr / weak_ptr.  Slot NULL of every field is a scratch slot
\* that no live object occupies.
NULL == 0
Ids == 1..MaxNodes
Slots == 0..MaxNodes

Vec(x, y) == [x |-> x, y |-> y]
Rec(x, y, w, h) == [x |-> x, y |-> y, width |-> w, height |-> h]
Min(a, b) == IF a < b THEN a ELSE b
Max(a, b) == IF a > b THEN a ELSE b

\* Program constants.
cell_size_x == 10
cell_size_y == 10
GridWidth == 7
GridHeight == 6
Radius == 5
RootPadding == 1
Level2X == 20

\* The heap as one value, so that the methods below are functions of it.
\* oom is set when make_shared finds no free slot (a bound of the model).
Heap ==
    [kind |-> kind, parent |-> parent, children |-> children, position |-> position,
     initialized |-> initialized, active |-> active, visible |-> visible,
     rect |-> rect, padding_x |-> padding_x, padding_y |-> padding_y,
     grid |-> grid, level |-> level, player |-> player,
     grid_x |-> grid_x, grid_y |-> grid_y, selected |-> selected,
     updates |-> updates, renders |-> renders, crashed |-> crashed, oom |-> FALSE]

\* A heap with no object: every slot holds the member initializers of node.hpp
\* (initialized = false, active = true, visible = true) and zeroes.
EmptyHeap ==
    [kind |-> [n \in Slots |-> "Free"], parent |-> [n \in Slots |-> NULL],
     children |-> [n \in Slots |-> <<>>], position |-> [n \in Slots |-> Vec(0, 0)],
     initialized |-> [n \in Slots |-> FALSE], active |-> [n \in Slots |-> TRUE],
     visible |-> [n \in Slots |-> TRUE], rect |-> [n \in Slots |-> Rec(0, 0, 0, 0)],
     padding_x |-> [n \in Slots |-> 0], padding_y |-> [n \in Slots |-> 0],
     grid |-> [n \in Slots |-> NULL], level |-> [n \in Slots |-> NULL],
     player |-> [n \in Slots |-> NULL],
     grid_x |-> [n \in Slots |-> 0], grid_y |-> [n \in Slots |-> 0],
     selected |-> [n \in Slots |-> FALSE],
     updates |-> [n \in Slots |-> 0], renders |-> [n \in Slots |-> 0],
     crashed |-> FALSE, oom |-> FALSE]

SetHeap(h) ==
    /\ kind' = h.kind /\ parent' = h.parent /\ children' = h.children
    /\ position' = h.position /\ initialized' = h.initialized
    /\ active' = h.active /\ visible' = h.visible /\ rect' = h.rect
    /\ padding_x' = h.padding_x /\ padding_y' = h.padding_y
    /\ grid' = h.grid /\ level' = h.level /\ player' = h.player
    /\ grid_x' = h.grid_x /\ grid_y' = h.grid_y /\ selected' = h.selected
    /\ updates' = h.updates /\ renders' = h.renders /\ crashed' = h.crashed

Halted(h) == h.crashed \/ h.oom
Crash(h) == [h EXCEPT !.crashed = TRUE]

\* std::make_shared<T>(): the lowest free slot becomes an object of kind k.
FreeIds(h) == {n \in Ids : h.kind[n] = "Free"}
NewId(h) ==
    IF FreeIds(h) = {} THEN NULL
    ELSE CHOOSE n \in FreeIds(h) : \A m \in FreeIds(h) : n <= m
make_shared(h, k) ==
    IF NewId(h) = NULL THEN [h EXCEPT !.oom = TRUE]
    ELSE [h EXCEPT !.kind[NewId(h)] = k]


RECURSIVE init(_, _), init_children(_, _, _)
RECURSIVE update(_, _, _, _), update_children(_, _, _, _, _)
RECURSIVE render(_, _, _), render_children(_, _, _, _)
RECURSIVE activate(_, _, _), activate_children(_, _, _, _)
RECURSIVE deactivate(_, _, _), deactivate_children(_, _, _, _)
RECURSIVE set_visible(_, _, _, _), set_visible_children(_, _, _, _, _)
RECURSIVE add_child(_, _, _)
RECURSIVE get_global_position(_, _, _)
RECURSIVE get_bounding_box(_, _, _), children_bounding_box(_, _, _, _, _)

(***************************************************************************)
(* Node (node.cpp).  A method that recurses over children takes the set    *)
(* `stack` of receivers whose call is still open: re-entering one of them  *)
(* repeats the same recursion without end, which exhausts the call stack.  *)
(* Calling through an empty child pointer is a null dereference.           *)
(***************************************************************************)

\* for (auto& child : children) child->update();
update_children(h, n, i, keys, stack) ==
    IF Halted(h) \/ i > Len(h.children[n]) THEN h
    ELSE IF h.children[n][i] = NULL THEN Crash(h)
    ELSE update_children(update(h, h.children[n][i], keys, stack), n, i + 1, keys, stack)

\* Node::update without the early return on an inactive node.
Node_update_unguarded(h, n, keys, stack) ==
    update_children(h, n, 1, keys, stack \cup {n})

Node_update(h, n, keys, stack) ==
    IF ~h.active[n] THEN h
    ELSE update_children(h, n, 1, keys, stack \cup {n})

\* for (auto& child : children) child->render();
render_children(h, n, i, stack) ==
    IF Halted(h) \/ i > Len(h.children[n]) THEN h
    ELSE IF h.children[n][i] = NULL THEN Crash(h)
    ELSE render_children(render(h, h.children[n][i], stack), n, i + 1, stack)

Node_render(h, n, stack) ==
    IF ~h.visible[n] THEN h
    ELSE render_children(h, n, 1, stack \cup {n})

init_children(h, n, i) ==
    IF Halted(h) \/ i > Len(h.children[n]) THEN h
    ELSE IF h.children[n][i] = NULL THEN Crash(h)
    ELSE init_children(init(h, h.children[n][i]), n, i + 1)

Node_init(h, n) ==
    IF h.initialized[n] THEN h
    ELSE init_children([h EXCEPT !.initialized[n] = TRUE], n, 1)

activate_children(h, n, i, stack) ==
    IF Halted(h) \/ i > Len(h.children[n]) THEN h
    ELSE IF h.children[n][i] = NULL THEN Crash(h)
    ELSE activate_children(activate(h, h.children[n][i], stack), n, i + 1, stack)

activate(h, n, stack) ==
    IF Halted(h) THEN h
    ELSE IF n \in stack THEN Crash(h)
    ELSE activate_children([h EXCEPT !.active[n] = TRUE], n, 1, stack \cup {n})

deactivate_children(h, n, i, stack) ==
    IF Halted(h) \/ i > Len(h.children[n]) THEN h
    ELSE IF h.children[n][i] = NULL THEN Crash(h)
    ELSE deactivate_children(deactivate(h, h.children[n][i], stack), n, i + 1, stack)

\* deactivate that leaves the children as they are.
deactivate_self_only(h, n, stack) ==
    IF Halted(h) THEN h ELSE [h EXCEPT !.active[n] = FALSE]

deactivate(h, n, stack) ==
    IF Halted(h) THEN h
    ELSE IF n \in stack THEN Crash(h)
    ELSE deactivate_children([h EXCEPT !.active[n] = FALSE], n, 1, stack \cup {n})

set_active(h, n, a) ==
    IF a THEN activate(h, n, {}) ELSE deactivate(h, n, {})

set_visible_children(h, n, i, v, stack) ==
    IF Halted(h) \/ i > Len(h.children[n]) THEN h
    ELSE IF h.children[n][i] = NULL THEN Crash(h)
    ELSE set_visible_children(set_visible(h, h.children[n][i], v, stack), n, i + 1, v, stack)

set_visible(h, n, v, stack) ==
    IF Halted(h) THEN h
    ELSE IF n \in stack THEN Crash(h)
    ELSE set_visible_children([h EXCEPT !.visible[n] = v], n, 1, v, stack \cup {n})

\* child->parent = shared_from_this(); children.push_back(child);
add_child_push_back(h, p, c) ==
    [h EXCEPT !.parent[c] = p, !.children[p] = Append(@, c)]

\* if (initialized) child->init();
add_child_init(h, p, c) == IF h.initialized[p] THEN init(h, c) ELSE h

\* if (active) child->activate();
add_child_activate(h, p, c) == IF h.active[p] THEN activate(h, c, {}) ELSE h

\* if (visible) child->set_visible(visible);
add_child_set_visible(h, p, c) ==
    IF h.visible[p] THEN set_visible(h, c, h.visible[p], {}) ELSE h

\* add_child that forgets to replay init on the new child.
add_child_no_init_replay(h, p, c) ==
    IF Halted(h) THEN h
    ELSE add_child_set_visible(
             add_child_activate(add_child_push_back(h, p, c), p, c), p, c)

add_child(h, p, c) ==
    IF Halted(h) THEN h
    ELSE add_child_set_visible(
             add_child_activate(
                 add_child_init(add_child_push_back(h, p, c), p, c), p, c), p, c)

\* template add_child<T>(args...): make_shared<T>, then add_child.
add_child_new(h, p, k) ==
    IF Halted(h) THEN h
    ELSE add_child(make_shared(h, k), p, NewId(h))

\* std::remove(first, last, v) on a vector of shared_ptr: the kept elements are
\* move-assigned towards the front, which empties the element moved from.
\* s is the vector, r the write index, i the scan index; the result is the
\* vector and the returned iterator.
RECURSIVE std_remove_loop(_, _, _, _)
std_remove_loop(s, v, r, i) ==
    IF i > Len(s) THEN <<s, r>>
    ELSE IF s[i] # v
         THEN std_remove_loop([s EXCEPT ![r] = s[i], ![i] = NULL], v, r + 1, i + 1)
         ELSE std_remove_loop(s, v, r, i + 1)

std_find(s, v) ==
    IF \E i \in 1..Len(s) : s[i] = v
    THEN CHOOSE i \in 1..Len(s) : s[i] = v /\ \A j \in 1..(i - 1) : s[j] # v
    ELSE Len(s) + 1

std_remove(s, v) ==
    IF std_find(s, v) > Len(s) THEN <<s, Len(s) + 1>>
    ELSE std_remove_loop(s, v, std_find(s, v), std_find(s, v) + 1)

\* vector::erase(it): the single element at it.
erase(s, it) == [j \in 1..(Len(s) - 1) |-> IF j < it THEN s[j] ELSE s[j + 1]]

\* children.erase(it) when it is not end().
erase_if_found(h, p, rm) ==
    IF rm[2] <= Len(rm[1])
    THEN [h EXCEPT !.children[p] = erase(rm[1], rm[2])]
    ELSE [h EXCEPT !.children[p] = rm[1]]

remove_child(h, p, c) == erase_if_found(h, p, std_remove(h.children[p], c))

clear_children(h, p) ==
    IF \E i \in 1..Len(h.children[p]) : h.children[p][i] = NULL
    THEN Crash(h)
    ELSE [h EXCEPT !.parent = [n \in Slots |->
                        IF \E i \in 1..Len(h.children[p]) : h.children[p][i] = n
                        THEN NULL ELSE h.parent[n]],
                   !.children[p] = <<>>]

\* parent.reset() of remove_self.
reset_parent(h, n) == [h EXCEPT !.parent[n] = NULL]

remove_self(h, n) ==
    reset_parent(IF h.parent[n] # NULL THEN remove_child(h, h.parent[n], n) ELSE h, n)

\* get_global_position that adds only the parent's local offset.
get_global_position_one_level(h, n, stack) ==
    IF h.parent[n] # NULL
    THEN [x |-> h.position[n].x + h.position[h.parent[n]].x,
          y |-> h.position[n].y + h.position[h.parent[n]].y,
          diverged |-> FALSE]
    ELSE [x |-> h.position[n].x, y |-> h.position[n].y, diverged |-> FALSE]

\* { position.x + parent_pos.x, position.y + parent_pos.y }
add_parent_pos(pos, parent_pos) ==
    [x |-> pos.x + parent_pos.x, y |-> pos.y + parent_pos.y,
     diverged |-> parent_pos.diverged]

\* The result carries `diverged` when the parent chain never ends.
get_global_position(h, n, stack) ==
    IF n \in stack THEN [x |-> 0, y |-> 0, diverged |-> TRUE]
    ELSE IF h.parent[n] # NULL
         THEN add_parent_pos(h.position[n],
                             get_global_position(h, h.parent[n], stack \cup {n}))
         ELSE [x |-> h.position[n].x, y |-> h.position[n].y, diverged |-> FALSE]

\* The rectangle moved by the global position.
offset_rect(local_rect, global_pos) ==
    Rec(local_rect.x + global_pos.x, local_rect.y + global_pos.y,
        local_rect.width, local_rect.height)

get_global_rect(h, n, local_rect) ==
    offset_rect(local_rect, get_global_position(h, n, {}))

(***************************************************************************)
(* Renderable and the renderers (node.cpp).  Drawing itself goes to the    *)
(* graphics library and changes nothing of the scene.                      *)
(***************************************************************************)

IsRenderable(k) ==
    k \in {"RectRenderer", "CircleRenderer", "TextRenderer", "RectContainer",
           "Grid", "Player", "Satellite"}

\* MeasureTextEx of the graphics library for the text Root::init sets: one line
\* of height font_size; the width stands for the library's answer.
font_size == 5
HelloWidth == 28

rect_extrude(r, extrude_x, extrude_y) ==
    Rec(r.x - extrude_x, r.y - extrude_y, r.width + 2 * extrude_x, r.height + 2 * extrude_y)

Grid_get_cell_rect(h, g, x, y) ==
    Rec(h.position[g].x + x * cell_size_x, h.position[g].y + y * cell_size_y,
        cell_size_x, cell_size_y)

Grid_get_point(h, g, x, y) ==
    Vec(Grid_get_cell_rect(h, g, x, y).x, Grid_get_cell_rect(h, g, x, y).y)

\* std::clamp(v, lo, hi)
std_clamp(v, lo, hi) == IF v < lo THEN lo ELSE IF hi < v THEN hi ELSE v

clamp_point(w, ht, x, y) == Vec(std_clamp(x, 0, w), std_clamp(y, 0, ht))

\* clamp_cell with the range of clamp_point.
clamp_cell_as_point(w, ht, x, y) == Vec(std_clamp(x, 0, w), std_clamp(y, 0, ht))

clamp_cell(w, ht, x, y) == Vec(std_clamp(x, 0, w - 1), std_clamp(y, 0, ht - 1))

\* The fold step that keeps only the box of the child at hand.
widen_to_child(acc, bb) ==
    [l |-> bb.x, t |-> bb.y, r |-> bb.x + bb.width, b |-> bb.y + bb.height,
     diverged |-> acc.diverged \/ bb.diverged]

\* One step of the fold: the extents widened by the box of one child.
widen(acc, bb) ==
    [l |-> Min(acc.l, bb.x), t |-> Min(acc.t, bb.y),
     r |-> Max(acc.r, bb.x + bb.width), b |-> Max(acc.b, bb.y + bb.height),
     diverged |-> acc.diverged \/ bb.diverged]

\* The fold of get_children_bounding_box over children i.. with the extents so
\* far in acc; a child that is no Renderable (or is empty) is skipped.
children_bounding_box(h, n, i, acc, stack) ==
    IF i > Len(h.children[n]) THEN acc
    ELSE IF ~IsRenderable(h.kind[h.children[n][i]])
         THEN children_bounding_box(h, n, i + 1, acc, stack)
         ELSE children_bounding_box(h, n, i + 1,
                  widen(acc, get_bounding_box(h, h.children[n][i], stack)), stack)

\* The rectangle between the extents.
extents_rect(e) ==
    [x |-> e.l, y |-> e.t, width |-> e.r - e.l, height |-> e.b - e.t,
     diverged |-> e.diverged]

get_children_bounding_box(h, n, stack) ==
    extents_rect(children_bounding_box(h, n, 1,
                     [l |-> 0, t |-> 0, r |-> 0, b |-> 0, diverged |-> FALSE], stack))

Box(r) == [x |-> r.x, y |-> r.y, width |-> r.width, height |-> r.height,
           diverged |-> FALSE]

\* virtual Renderable::get_bounding_box, by dynamic type.
get_bounding_box(h, n, stack) ==
    IF n \in stack THEN [Box(Rec(0, 0, 0, 0)) EXCEPT !.diverged = TRUE]
    ELSE CASE h.kind[n] \in {"RectRenderer", "Satellite"} -> Box(h.rect[n])
           [] h.kind[n] \in {"CircleRenderer", "Player"} ->
                Box(Rec(h.position[n].x - Radius, h.position[n].y - Radius,
                        Radius * 2, Radius * 2))
           [] h.kind[n] = "Grid" ->
                Box(Rec(h.position[n].x, h.position[n].y,
                        GridWidth * cell_size_x, GridHeight * cell_size_y))
           [] h.kind[n] = "TextRenderer" ->
                Box(Rec(h.position[n].x, h.position[n].y, HelloWidth, font_size))
           [] h.kind[n] = "RectContainer" ->
                get_children_bounding_box(h, n, stack \cup {n})
           [] OTHER -> Box(Rec(0, 0, 0, 0))

\* { global_pos.x + rect.x, global_pos.y + rect.y, rect.width, rect.height }
global_box(bb, global_pos) ==
    [x |-> global_pos.x + bb.x, y |-> global_pos.y + bb.y,
     width |-> bb.width, height |-> bb.height,
     diverged |-> bb.diverged \/ global_pos.diverged]

get_global_bounding_box(h, n) ==
    global_box(get_bounding_box(h, n, {}), get_global_position(h, n, {}))

\* RectRenderer::render, CircleRenderer::render and TextRenderer::render (without
\* max_width) first draw at get_global_rect / get_global_position, then Base::render.
Renderer_render(h, n, stack) ==
    IF get_global_position(h, n, {}).diverged THEN Crash(h)
    ELSE Node_render(h, n, stack)

\* rect = rect_extrude(get_bounding_box(), padding) moved by the padding, then
\* RectRenderer::render.
RectContainer_set_rect(h, n, own, bb, stack) ==
    IF own.diverged THEN Crash(h)
    ELSE Renderer_render([h EXCEPT !.rect[n] = Rec(bb.x + h.padding_x[n],
                                                   bb.y + h.padding_y[n],
                                                   bb.width, bb.height)], n, stack)

RectContainer_extrude(h, n, own, stack) ==
    RectContainer_set_rect(h, n, own,
                           rect_extrude(own, h.padding_x[n], h.padding_y[n]), stack)

RectContainer_render(h, n, stack) ==
    RectContainer_extrude(h, n, get_bounding_box(h, n, {}), stack)

RectContainer_update(h, n, keys, stack) ==
    IF \E i \in 1..Len(h.children[n]) : h.children[n][i] = NULL
    THEN Crash(h)
    ELSE Node_update([h EXCEPT !.position = [m \in Slots |->
                            IF \E i \in 1..Len(h.children[n]) : h.children[n][i] = m
                            THEN Vec(h.padding_x[n], h.padding_y[n])
                            ELSE h.position[m]]], n, keys, stack)

(***************************************************************************)
(* The grid game (main.cpp, main.hpp).                                     *)
(***************************************************************************)

\* GridNode::set_grid_position
set_grid_position(h, n, x, y) ==
    IF h.grid[n] = NULL THEN Crash(h)
    ELSE [h EXCEPT !.position[n] = Grid_get_point(h, h.grid[n], x, y)]

\* grid = level.lock()->grid; set_grid_position(grid_x, grid_y);
Player_init_grid(h, n) ==
    IF Halted(h) THEN h
    ELSE IF h.level[n] = NULL THEN Crash(h)
    ELSE set_grid_position([h EXCEPT !.grid[n] = h.grid[h.level[n]]],
                           n, h.grid_x[n], h.grid_y[n])

Player_init(h, n) == Player_init_grid(Node_init(h, n), n)

\* grid_x, grid_y after the four IsKeyPressed tests.
pressed_x(x, keys) ==
    (IF "A" \in keys THEN x - 1 ELSE x) + (IF "D" \in keys THEN 1 ELSE 0)
pressed_y(y, keys) ==
    (IF "W" \in keys THEN y - 1 ELSE y) + (IF "S" \in keys THEN 1 ELSE 0)

\* level_ptr->grid->clamp_point(grid_x, grid_y); set_grid_position(grid_x, grid_y);
Player_move_to(h, n, c) ==
    set_grid_position([h EXCEPT !.grid_x[n] = c.x, !.grid_y[n] = c.y], n, c.x, c.y)

Player_move(h, n, keys) ==
    Player_move_to(h, n, clamp_point(GridWidth, GridHeight,
                                     pressed_x(h.grid_x[n], keys),
                                     pressed_y(h.grid_y[n], keys)))

\* Player::update after Base::update that moves whether or not its level is
\* selected.
Player_keys_any_level(h, n, keys) ==
    IF Halted(h) THEN h ELSE Player_move(h, n, keys)

\* Player::update after Base::update.
Player_keys(h, n, keys) ==
    IF Halted(h) THEN h
    ELSE IF h.level[n] = NULL \/ ~h.selected[h.level[n]] THEN h
    ELSE IF h.grid[h.level[n]] = NULL THEN Crash(h)
    ELSE Player_move(h, n, keys)

\* keys: the keys IsKeyPressed reports in this frame.
Player_update(h, n, keys, stack) ==
    Player_keys(Node_update(h, n, keys, stack), n, keys)

\* rect = { -5, -5, 10, 10 };
Satellite_set_rect(h, n) ==
    IF Halted(h) THEN h ELSE [h EXCEPT !.rect[n] = Rec(-5, -5, 10, 10)]

Satellite_init(h, n) == Satellite_set_rect(Node_init(h, n), n)

\* add_child<Player>(level): the constructor stores the level before add_child.
add_child_new_player(h, p, lv) ==
    IF Halted(h) THEN h
    ELSE add_child([make_shared(h, "Player") EXCEPT !.level[NewId(h)] = lv], p, NewId(h))

\* grid = add_child<Grid>(7, 6); grid->position = { 0, 0 };
Level_set_grid(h, n, g) ==
    IF Halted(h) THEN h ELSE [h EXCEPT !.grid[n] = g, !.position[g] = Vec(0, 0)]
Level_init_grid(h, n) == Level_set_grid(add_child_new(h, n, "Grid"), n, NewId(h))

\* player = add_child<Player>(...); player->grid_x = 0; player->grid_y = 0;
Level_set_player(h, n, pl) ==
    IF Halted(h) THEN h
    ELSE [h EXCEPT !.player[n] = pl, !.grid_x[pl] = 0, !.grid_y[pl] = 0]
Level_init_player(h, n) ==
    IF Halted(h) THEN h ELSE Level_set_player(add_child_new_player(h, n, n), n, NewId(h))

\* satellite = add_child<Satellite>(); satellite->position = grid->get_point(5, 5);
Level_set_satellite(h, n, sa) ==
    IF Halted(h) THEN h
    ELSE [h EXCEPT !.position[sa] = Grid_get_point(h, h.grid[n], 5, 5)]
Level_init_satellite(h, n) ==
    IF Halted(h) THEN h ELSE Level_set_satellite(add_child_new(h, n, "Satellite"), n, NewId(h))

\* Base::init();
Base_init(h, n) == IF Halted(h) THEN h ELSE Node_init(h, n)

Level_init(h, n) ==
    Base_init(Level_init_satellite(Level_init_player(Level_init_grid(h, n), n), n), n)

Level_update(h, n, keys, stack) == Node_update(h, n, keys, stack)

\* The cells of Grid::render are drawn at get_global_rect.
Grid_draw(h, n) ==
    IF Halted(h) THEN h
    ELSE IF get_global_position(h, n, {}).diverged THEN Crash(h)
    ELSE h

\* Grid::render: Base::render, then one get_global_rect per cell.
Grid_render(h, n, stack) == Grid_draw(Node_render(h, n, stack), n)

\* if (selected) the border around grid.
Level_draw(h, n) ==
    IF Halted(h) THEN h
    ELSE IF h.selected[n] /\ h.grid[n] = NULL THEN Crash(h)
    ELSE IF h.selected[n] /\ get_global_position(h, h.grid[n], {}).diverged
         THEN Crash(h)
    ELSE h

\* Level::render: Base::render, then the border around grid when selected.
Level_render(h, n, stack) == Level_draw(Node_render(h, n, stack), n)

\* level1 = add_child<Level>(); level1->position = { 0, 0 };
Root_set_level(h, lv, x) ==
    IF Halted(h) THEN h ELSE [h EXCEPT !.position[lv] = Vec(x, 0)]
Root_init_level(h, n, x) ==
    IF Halted(h) THEN h ELSE Root_set_level(add_child_new(h, n, "Level"), NewId(h), x)

\* container = add_child<RectContainer>() with its padding, and the
\* TextRenderer added to it.
Root_set_container(h, container) ==
    IF Halted(h) THEN h
    ELSE add_child_new([h EXCEPT !.position[container] = Vec(0, 0),
                                 !.padding_x[container] = RootPadding,
                                 !.padding_y[container] = RootPadding],
                       container, "TextRenderer")
Root_init_container(h, n) ==
    IF Halted(h) THEN h
    ELSE Root_set_container(add_child_new(h, n, "RectContainer"), NewId(h))

\* selected_level = level1; selected_level->selected = true;  level1 is the
\* first of the three children this call has appended.
Root_select(h, n) ==
    IF Halted(h) THEN h ELSE [h EXCEPT !.selected[h.children[n][Len(h.children[n]) - 2]] = TRUE]

\* Root::selected_level always equals the level whose selected flag Root::init
\* sets; only the flag is read by the code modelled here.
Root_init(h, n) ==
    Root_select(
        Root_init_container(
            Root_init_level(
                Root_init_level(Node_init(h, n), n, 0),
                n, Level2X * cell_size_x),
            n),
        n)

\* Virtual dispatch.
init(h, n) ==
    IF Halted(h) THEN h
    ELSE CASE h.kind[n] = "Root" -> Root_init(h, n)
           [] h.kind[n] = "Level" -> Level_init(h, n)
           [] h.kind[n] = "Player" -> Player_init(h, n)
           [] h.kind[n] = "Satellite" -> Satellite_init(h, n)
           [] OTHER -> Node_init(h, n)

update(h, n, keys, stack) ==
    IF Halted(h) THEN h
    ELSE IF n \in stack THEN Crash(h)
    ELSE CASE h.kind[n] = "Player" ->
                Player_update([h EXCEPT !.updates[n] = @ + 1], n, keys, stack)
           [] h.kind[n] = "RectContainer" ->
                RectContainer_update([h EXCEPT !.updates[n] = @ + 1], n, keys, stack)
           [] h.kind[n] = "Level" ->
                Level_update([h EXCEPT !.updates[n] = @ + 1], n, keys, stack)
           [] OTHER -> Node_update([h EXCEPT !.updates[n] = @ + 1], n, keys, stack)

render(h, n, stack) ==
    IF Halted(h) THEN h
    ELSE IF n \in stack THEN Crash(h)
    ELSE CASE h.kind[n] = "RectContainer" ->
                RectContainer_render([h EXCEPT !.renders[n] = @ + 1], n, stack)
           [] h.kind[n] \in {"RectRenderer", "Satellite", "CircleRenderer",
                             "Player", "TextRenderer"} ->
                Renderer_render([h EXCEPT !.renders[n] = @ + 1], n, stack)
           [] h.kind[n] = "Grid" -> Grid_render([h EXCEPT !.renders[n] = @ + 1], n, stack)
           [] h.kind[n] = "Level" -> Level_render([h EXCEPT !.renders[n] = @ + 1], n, stack)
           [] OTHER -> Node_render([h EXCEPT !.renders[n] = @ + 1], n, stack)

(***************************************************************************)
(* Calls on the scene.  Every action is one call from outside the tree,    *)
(* run to completion; no call is made once the process has died.           *)
(***************************************************************************)

Live == {n \in Ids : kind[n] # "Free"}
Call(op, n, c, ret) == [op |-> op, n |-> n, c |-> c, ret |-> ret, keys |-> {}]
NoRet == Vec(0, 0)
Keys == {"W", "A", "S", "D"}

\* The counters of the frame start from zero.
Frame(h) == [h EXCEPT !.updates = [n \in Slots |-> 0], !.renders = [n \in Slots |-> 0]]

Do(h, call) ==
    /\ ~crashed /\ ~h.oom
    /\ SetHeap(h) /\ last' = call /\ calls' = calls + 1 /\ UNCHANGED <<mt, dt>>

AddChild(p, c) ==
    /\ Len(children[p]) < MaxChildren
    /\ Do(add_child(Heap, p, c), Call("add_child", p, c, NoRet))

RemoveChild(p, c) == Do(remove_child(Heap, p, c), Call("remove_child", p, c, NoRet))

ClearChildren(p) == Do(clear_children(Heap, p), Call("clear_children", p, NULL, NoRet))

RemoveSelf(n) == Do(remove_self(Heap, n), Call("remove_self", n, NULL, NoRet))

CallInit(n) == Do(init(Heap, n), Call("init", n, NULL, NoRet))

Activate(n) == Do(set_active(Heap, n, TRUE), Call("activate", n, NULL, NoRet))

Deactivate(n) == Do(set_active(Heap, n, FALSE), Call("deactivate", n, NULL, NoRet))

SetVisible(n, v) ==
    Do(set_visible(Heap, n, v, {}), Call(IF v THEN "show" ELSE "hide", n, NULL, NoRet))

Update(n, keys) ==
    Do(update(Frame(Heap), n, keys, {}),
       [Call("update", n, NULL, NoRet) EXCEPT !.keys = keys])

Render(n) == Do(render(Frame(Heap), n, {}), Call("render", n, NULL, NoRet))

\* A caller assigns the public field position.
SetPosition(n, v) ==
    Do([Heap EXCEPT !.position[n] = v], Call("set_position", n, NULL, NoRet))

GetGlobalPosition(n) ==
    LET g == get_global_position(Heap, n, {})
    IN  Do(IF g.diverged THEN Crash(Heap) ELSE Heap,
           Call("get_global_position", n, NULL, Vec(g.x, g.y)))

\* A caller assigns the public field Level::selected.
SetSelected(l, b) ==
    Do([Heap EXCEPT !.selected[l] = b],
       Call(IF b THEN "select" ELSE "unselect", l, NULL, NoRet))

(***************************************************************************)
(* SpecTree: a free-form tree of TreeNodes detached nodes made with        *)
(* make_shared, on which any caller may call any Node method.              *)
(***************************************************************************)

TreeIds == 1..TreeNodes
TreeKind(n) ==
    CASE n % 3 = 1 -> "Node" [] n % 3 = 2 -> "RectContainer" [] OTHER -> "CircleRenderer"
Positions == {Vec(1, 10), Vec(3, -2)}

IdleText == [pc |-> "idle"]

InitTree ==
    /\ kind = [n \in Slots |-> IF n \in TreeIds THEN TreeKind(n) ELSE "Free"]
    /\ parent = EmptyHeap.parent /\ children = EmptyHeap.children
    /\ position = EmptyHeap.position /\ initialized = EmptyHeap.initialized
    /\ active = EmptyHeap.active /\ visible = EmptyHeap.visible
    /\ rect = EmptyHeap.rect
    /\ padding_x = EmptyHeap.padding_x /\ padding_y = EmptyHeap.padding_y
    /\ grid = EmptyHeap.grid /\ level = EmptyHeap.level /\ player = EmptyHeap.player
    /\ grid_x = EmptyHeap.grid_x /\ grid_y = EmptyHeap.grid_y
    /\ selected = EmptyHeap.selected
    /\ updates = EmptyHeap.updates /\ renders = EmptyHeap.renders
    /\ crashed = FALSE
    /\ last = Call("new", NULL, NULL, NoRet)
    /\ calls = 0
    /\ mt = IdleText /\ dt = IdleText

NextTree ==
    \/ \E p \in TreeIds, c \in TreeIds : calls < MaxCalls /\ AddChild(p, c)
    \/ \E p \in TreeIds, c \in TreeIds : calls < MaxCalls /\ RemoveChild(p, c)
    \/ \E p \in TreeIds : calls < MaxCalls /\ ClearChildren(p)
    \/ \E n \in TreeIds : calls < MaxCalls /\ RemoveSelf(n)
    \/ \E n \in TreeIds : calls < MaxCalls /\ CallInit(n)
    \/ \E n \in TreeIds : calls < MaxCalls /\ Activate(n)
    \/ \E n \in TreeIds : calls < MaxCalls /\ Deactivate(n)
    \/ \E n \in TreeIds, v \in BOOLEAN : calls < MaxCalls /\ SetVisible(n, v)

SpecTree == InitTree /\ [][NextTree]_vars

(***************************************************************************)
(* SpecPos: the same nodes, attached and detached and moved by a caller    *)
(* that reads their global positions and runs frames.                      *)
(***************************************************************************)

NextPos ==
    \/ \E p \in TreeIds, c \in TreeIds : calls < MaxSteps /\ AddChild(p, c)
    \/ \E p \in TreeIds, c \in TreeIds : calls < MaxSteps /\ RemoveChild(p, c)
    \/ \E n \in TreeIds : calls < MaxSteps /\ RemoveSelf(n)
    \/ \E n \in TreeIds, v \in Positions : calls < MaxSteps /\ SetPosition(n, v)
    \/ \E n \in TreeIds : calls < MaxSteps /\ GetGlobalPosition(n)

SpecPos == InitTree /\ [][NextPos]_vars

(***************************************************************************)
(* SpecGame: the program after Game::Game() has made the Root and called   *)
(* root->init().  Each frame Game::update() calls root->update() with the  *)
(* keys pressed in that frame; callers may also call init() again on any   *)
(* node and select or unselect a level.                                    *)
(***************************************************************************)

TheRoot == 1
AfterConstruction == init(make_shared(EmptyHeap, "Root"), TheRoot)

InitGame ==
    /\ kind = AfterConstruction.kind
    /\ parent = AfterConstruction.parent /\ children = AfterConstruction.children
    /\ position = AfterConstruction.position
    /\ initialized = AfterConstruction.initialized
    /\ active = AfterConstruction.active /\ visible = AfterConstruction.visible
    /\ rect = AfterConstruction.rect
    /\ padding_x = AfterConstruction.padding_x
    /\ padding_y = AfterConstruction.padding_y
    /\ grid = AfterConstruction.grid /\ level = AfterConstruction.level
    /\ player = AfterConstruction.player
    /\ grid_x = AfterConstruction.grid_x /\ grid_y = AfterConstruction.grid_y
    /\ selected = AfterConstruction.selected
    /\ updates = AfterConstruction.updates /\ renders = AfterConstruction.renders
    /\ crashed = FALSE
    /\ last = Call("init", TheRoot, NULL, NoRet)
    /\ calls = 0
    /\ mt = IdleText /\ dt = IdleText

OfKind(k) == {n \in Ids : kind[n] = k}

NextGame ==
    \/ \E keys \in SUBSET Keys : calls < MaxSteps /\ Update(TheRoot, keys)
    \/ \E l \in OfKind("Level"), b \in BOOLEAN : calls < MaxSteps /\ SetSelected(l, b)
    \/ \E n \in Live : calls < MaxSteps /\ CallInit(n)

SpecGame == InitGame /\ [][NextGame]_vars

(***************************************************************************)
(* SpecLife: the same program, whose callers switch lifecycle flags of any *)
(* node and run update and render frames from any node.                    *)
(***************************************************************************)

FrameKeys == {{}, {"D"}, {"S", "D"}}

NextLife ==
    \/ \E n \in Live : calls < MaxFrames /\ Activate(n)
    \/ \E n \in Live : calls < MaxFrames /\ Deactivate(n)
    \/ \E n \in Live, v \in BOOLEAN : calls < MaxFrames /\ SetVisible(n, v)
    \/ \E n \in Live, keys \in FrameKeys : calls < MaxFrames /\ Update(n, keys)
    \/ \E n \in Live : calls < MaxFrames /\ Render(n)

SpecLife == InitGame /\ [][NextLife]_vars

(***************************************************************************)
(* SpecBox: four detached nodes made with make_shared at positions of the  *)
(* caller's choice, which the caller attaches to one another and whose     *)
(* bounding boxes it reads.                                                *)
(***************************************************************************)

BoxIds == {1, 2, 3, 4}
BoxKind(n) ==
    CASE n = 1 -> "RectContainer" [] n = 3 -> "Node" [] OTHER -> "CircleRenderer"

\* The value a call returns, as a Rectangle.
Rectangle(r) == Rec(r.x, r.y, r.width, r.height)

InitBox ==
    /\ kind = [n \in Slots |-> IF n \in BoxIds THEN BoxKind(n) ELSE "Free"]
    /\ parent = EmptyHeap.parent /\ children = EmptyHeap.children
    /\ \E p1 \in {Vec(0, 0), Vec(1, 10)}, p2 \in Positions \cup {Vec(0, 0)},
          p4 \in Positions :
          position = [n \in Slots |-> CASE n = 1 -> p1 [] n = 2 -> p2 [] n = 4 -> p4
                                          [] OTHER -> Vec(0, 0)]
    /\ initialized = EmptyHeap.initialized
    /\ active = EmptyHeap.active /\ visible = EmptyHeap.visible
    /\ rect = EmptyHeap.rect
    /\ padding_x = EmptyHeap.padding_x /\ padding_y = EmptyHeap.padding_y
    /\ grid = EmptyHeap.grid /\ level = EmptyHeap.level /\ player = EmptyHeap.player
    /\ grid_x = EmptyHeap.grid_x /\ grid_y = EmptyHeap.grid_y
    /\ selected = EmptyHeap.selected
    /\ updates = EmptyHeap.updates /\ renders = EmptyHeap.renders
    /\ crashed = FALSE
    /\ last = Call("new", NULL, NULL, NoRet)
    /\ calls = 0
    /\ mt = IdleText /\ dt = IdleText

\* A box read: the scene is as it was, unless the computation never ends.
ReadBox(op, n, bb) ==
    Do(IF bb.diverged THEN Crash(Heap) ELSE Heap, Call(op, n, NULL, Rectangle(bb)))

GetGlobalBoundingBox(n) ==
    /\ IsRenderable(kind[n])
    /\ ReadBox("get_global_bounding_box", n, get_global_bounding_box(Heap, n))

GetChildrenBoundingBox(n) ==
    /\ IsRenderable(kind[n])
    /\ ReadBox("get_children_bounding_box", n, get_children_bounding_box(Heap, n, {n}))

NextBox ==
    \/ \E p \in BoxIds, c \in BoxIds : calls < MaxCalls /\ AddChild(p, c)
    \/ \E n \in BoxIds : calls < MaxCalls /\ GetGlobalBoundingBox(n)
    \/ \E n \in BoxIds : calls < MaxCalls /\ GetChildrenBoundingBox(n)

SpecBox == InitBox /\ [][NextBox]_vars

(***************************************************************************)
(* SpecGrid: a caller clamps any coordinates to a grid of any size.        *)
(***************************************************************************)

Dims == 1..MaxDim
Coords == (-2)..(MaxDim + 2)

\* A call on a Grid(w, ht) with the coordinates x, y; ret is what the call
\* leaves in x and y.
GridCall(op, w, ht, x, y, ret) ==
    [op |-> op, n |-> NULL, c |-> NULL, ret |-> ret, keys |-> {},
     width |-> w, height |-> ht, x |-> x, y |-> y]

\* The caller holds a Grid(width, height) and two integers x and y.
InitGrid ==
    /\ kind = EmptyHeap.kind
    /\ parent = EmptyHeap.parent /\ children = EmptyHeap.children
    /\ position = EmptyHeap.position /\ initialized = EmptyHeap.initialized
    /\ active = EmptyHeap.active /\ visible = EmptyHeap.visible
    /\ rect = EmptyHeap.rect
    /\ padding_x = EmptyHeap.padding_x /\ padding_y = EmptyHeap.padding_y
    /\ grid = EmptyHeap.grid /\ level = EmptyHeap.level /\ player = EmptyHeap.player
    /\ grid_x = EmptyHeap.grid_x /\ grid_y = EmptyHeap.grid_y
    /\ selected = EmptyHeap.selected
    /\ updates = EmptyHeap.updates /\ renders = EmptyHeap.renders
    /\ crashed = FALSE
    /\ \E w \in Dims, ht \in Dims, x \in Coords, y \in Coords :
          last = GridCall("Grid", w, ht, x, y, Vec(x, y))
    /\ calls = 0
    /\ mt = IdleText /\ dt = IdleText

\* grid.clamp_cell(x, y) on the integers the caller holds.
ClampCell ==
    /\ last.op = "Grid"
    /\ Do(Heap, GridCall("clamp_cell", last.width, last.height, last.x, last.y,
                         clamp_cell(last.width, last.height, last.x, last.y)))

\* grid.clamp_point(x, y) on the integers the caller holds.
ClampPoint ==
    /\ last.op = "Grid"
    /\ Do(Heap, GridCall("clamp_point", last.width, last.height, last.x, last.y,
                         clamp_point(last.width, last.height, last.x, last.y)))

NextGrid == ClampCell \/ ClampPoint

SpecGrid == InitGrid /\ [][NextGrid]_vars

(***************************************************************************)
(* MeasureBoxedTextHeight (node.cpp).  A text is a sequence of bytes:      *)
(* "a" and "W" are ASCII letters, " ", "\t" and "\n" themselves, "L" the   *)
(* lead byte of a two-byte UTF-8 sequence and "C" a continuation byte.     *)
(* Indices are those of the source, from 0.  The scale factor              *)
(* fontSize/baseSize is a whole number here.                               *)
(***************************************************************************)

Bytes == {"a", "W", " ", "\n", "L", "C"}
Widths == {1, 5, 7, 12}
Scales == {1, 2}

\* The font: GetFontDefault() has baseSize 10; glyphs with advanceX = 0 advance
\* by the width of their rectangle.
baseSize == 10
advanceX(codepoint) == IF codepoint = "W" THEN 4 ELSE 0
recs_width(codepoint) == IF codepoint = "e" THEN 3 ELSE 2

\* GetCodepoint of the graphics library at byte i: the codepoint and the bytes it
\* takes.  "e" is the character that "L" "C" encodes; a sequence that does not
\* decode gives "?" (0x3f).
GetCodepoint(text, i) ==
    CASE text[i + 1] = "L" ->
            IF i + 2 <= Len(text) /\ text[i + 2] = "C"
            THEN [codepoint |-> "e", size |-> 2]
            ELSE [codepoint |-> "?", size |-> 2]
      [] text[i + 1] = "C" -> [codepoint |-> "?", size |-> 1]
      [] OTHER -> [codepoint |-> text[i + 1], size |-> 1]

MEASURE_STATE == 0
DRAW_STATE == 1

\* (font.baseSize + font.baseSize/2)*scaleFactor, with the integer division of
\* the source.
LineAdvance(scaleFactor) == (baseSize + baseSize \div 2) * scaleFactor

\* The locals at the head of the for loop.
MeasureEntry(text, maxWidth, scaleFactor, spacing, wordWrap) ==
    [pc |-> "loop", text |-> text, maxWidth |-> maxWidth, scaleFactor |-> scaleFactor,
     spacing |-> spacing, wordWrap |-> wordWrap,
     textOffsetY |-> 0, textOffsetX |-> 0,
     state |-> IF wordWrap THEN MEASURE_STATE ELSE DRAW_STATE,
     startLine |-> -1, endLine |-> -1, lastk |-> -1, maxOffsetY |-> 0,
     i |-> 0, k |-> 0,
     lines |-> <<>>, overflows |-> <<>>, emitted |-> <<>>, trace |-> <<>>,
     height |-> 0]

\* if ((textOffsetX != 0) || (codepoint != ' ')) textOffsetX += glyphWidth; i++, k++
MeasureAdvance(m, codepoint, glyphWidth) ==
    [m EXCEPT !.textOffsetX = IF m.textOffsetX # 0 \/ codepoint # " "
                              THEN m.textOffsetX + glyphWidth ELSE m.textOffsetX,
              !.i = m.i + 1, !.k = m.k + 1]

\* The branch of MEASURE_STATE.  m.i is already past the bytes of the codepoint.
MeasureState(m, codepoint, codepointByteCount, glyphWidth) ==
    LET length == Len(m.text)
        e1 == IF codepoint \in {" ", "\t", "\n"} THEN m.i ELSE m.endLine
        over == (m.textOffsetX + glyphWidth) > m.maxWidth
        e2 == IF e1 < 1 THEN m.i ELSE e1
        e3 == IF m.i = e2 THEN e2 - codepointByteCount ELSE e2
        e4 == IF (m.startLine + codepointByteCount) = e3
              THEN m.i - codepointByteCount ELSE e3
        atEnd == ~over /\ (m.i + 1) = length
        newline == ~over /\ ~atEnd /\ codepoint = "\n"
        m1 == [m EXCEPT !.endLine = IF over THEN e4 ELSE IF atEnd THEN m.i ELSE e1,
                        !.state = IF over \/ atEnd \/ newline
                                  THEN DRAW_STATE ELSE MEASURE_STATE,
                        !.overflows = IF over THEN Append(@, m.i) ELSE @]
    IN  IF m1.state = DRAW_STATE
        THEN MeasureAdvance([m1 EXCEPT !.textOffsetX = 0, !.i = m1.startLine,
                                       !.lastk = m1.k - 1, !.k = m1.lastk],
                            codepoint, 0)
        ELSE MeasureAdvance(m1, codepoint, glyphWidth)

\* DrawState that counts a whole line advance for the line of every glyph.
DrawState_line_advance(m, codepoint, glyphWidth) ==
    LET line == LineAdvance(m.scaleFactor)
        m1 == IF codepoint \notin {"\n", " ", "\t"}
              THEN [m EXCEPT !.maxOffsetY = m.textOffsetY + line,
                             !.emitted = Append(@, [i |-> m.i, y |-> m.textOffsetY])]
              ELSE m
    IN  IF m.wordWrap /\ m.i = m.endLine
        THEN MeasureAdvance([m1 EXCEPT !.textOffsetY = @ + line, !.textOffsetX = 0,
                                       !.startLine = m.endLine, !.endLine = -1,
                                       !.k = m.lastk, !.state = MEASURE_STATE,
                                       !.lines = Append(@, m.endLine)],
                            codepoint, 0)
        ELSE MeasureAdvance(m1, codepoint, glyphWidth)

\* The branch of DRAW_STATE.
DrawState(m, codepoint, glyphWidth) ==
    LET line == LineAdvance(m.scaleFactor)
        breakBefore == codepoint # "\n" /\ ~m.wordWrap
                       /\ (m.textOffsetX + glyphWidth) > m.maxWidth
        m1 == IF codepoint = "\n"
              THEN IF ~m.wordWrap
                   THEN [m EXCEPT !.textOffsetY = @ + line, !.textOffsetX = 0]
                   ELSE m
              ELSE LET m0 == IF breakBefore
                             THEN [m EXCEPT !.textOffsetY = @ + line, !.textOffsetX = 0]
                             ELSE m
                   IN  IF codepoint # " " /\ codepoint # "\t"
                       THEN [m0 EXCEPT !.maxOffsetY = m0.textOffsetY + baseSize * m.scaleFactor,
                                       !.emitted = Append(@, [i |-> m.i, y |-> m0.textOffsetY])]
                       ELSE m0
    IN  IF m.wordWrap /\ m.i = m.endLine
        THEN MeasureAdvance([m1 EXCEPT !.textOffsetY = @ + line, !.textOffsetX = 0,
                                       !.startLine = m.endLine, !.endLine = -1,
                                       !.k = m.lastk, !.state = MEASURE_STATE,
                                       !.lines = Append(@, m.endLine)],
                            codepoint, 0)
        ELSE MeasureAdvance(m1, codepoint, glyphWidth)

\* One pass through the body of the for loop, with its i++, k++.
MeasureIteration(m) ==
    LET length == Len(m.text)
        cp == GetCodepoint(m.text, m.i)
        codepoint == cp.codepoint
        codepointByteCount == IF codepoint = "?" THEN 1 ELSE cp.size
        i1 == m.i + (codepointByteCount - 1)
        w == IF advanceX(codepoint) = 0
             THEN recs_width(codepoint) * m.scaleFactor
             ELSE advanceX(codepoint) * m.scaleFactor
        glyphWidth == IF codepoint # "\n"
                      THEN IF i1 + 1 < length THEN w + m.spacing ELSE w
                      ELSE 0
        m1 == [m EXCEPT !.i = i1, !.trace = Append(@, <<m.i, m.state>>)]
    IN  IF m.state = MEASURE_STATE
        THEN MeasureState(m1, codepoint, codepointByteCount, glyphWidth)
        ELSE DrawState(m1, codepoint, glyphWidth)

\* All texts of at most n bytes.
RECURSIVE Texts(_)
Texts(n) ==
    IF n = 0 THEN {<<>>}
    ELSE Texts(n - 1) \cup {Append(t, b) : t \in {u \in Texts(n - 1) : Len(u) = n - 1}, b \in Bytes}

\* Longer texts measured besides all the short ones: two words of two letters,
\* and a word that ends in a two-byte character.
LongTexts == {<<"a", "a", " ", "a", "a">>, <<"a", " ", "W", "L", "C">>}

\* TextRenderer::spacing
Spacing == 1

InitText ==
    /\ kind = EmptyHeap.kind
    /\ parent = EmptyHeap.parent /\ children = EmptyHeap.children
    /\ position = EmptyHeap.position /\ initialized = EmptyHeap.initialized
    /\ active = EmptyHeap.active /\ visible = EmptyHeap.visible
    /\ rect = EmptyHeap.rect
    /\ padding_x = EmptyHeap.padding_x /\ padding_y = EmptyHeap.padding_y
    /\ grid = EmptyHeap.grid /\ level = EmptyHeap.level /\ player = EmptyHeap.player
    /\ grid_x = EmptyHeap.grid_x /\ grid_y = EmptyHeap.grid_y
    /\ selected = EmptyHeap.selected
    /\ updates = EmptyHeap.updates /\ renders = EmptyHeap.renders
    /\ crashed = FALSE
    /\ last = Call("new", NULL, NULL, NoRet)
    /\ calls = 0
    /\ \E text \in Texts(MaxLen) \cup LongTexts, maxWidth \in Widths, scaleFactor \in Scales,
          wordWrap \in BOOLEAN :
          mt = MeasureEntry(text, maxWidth, scaleFactor, Spacing, wordWrap)
    /\ dt = IdleText

Scene == <<kind, parent, children, position, initialized, active, visible, rect,
           padding_x, padding_y, grid, level, player, grid_x, grid_y, selected,
           updates, renders, crashed, last, calls>>

\* for (...; i < length; ...) { body }
MeasureLoop ==
    /\ mt.pc = "loop" /\ mt.i < Len(mt.text)
    /\ mt' = MeasureIteration(mt)
    /\ UNCHANGED <<Scene, dt>>

\* return maxOffsetY;
MeasureReturn ==
    /\ mt.pc = "loop" /\ ~(mt.i < Len(mt.text))
    /\ mt' = [mt EXCEPT !.pc = "done", !.height = mt.maxOffsetY]
    /\ UNCHANGED <<Scene, dt>>

NextText == MeasureLoop \/ MeasureReturn

SpecText == InitText /\ [][NextText]_vars

(***************************************************************************)
(* DrawTextBoxedSelectable (node.cpp), which TextRenderer::render calls    *)
(* with the rectangle {position, max_width, max_height or the greatest     *)
(* float} and the selection (0, 0).  Texts, font and indices are those of  *)
(* the measurement above.                                                  *)
(***************************************************************************)

\* std::numeric_limits<float>::max(): no offset of the model comes near it.
FLT_MAX == 1000000
Heights == {5, 25, FLT_MAX}

\* The locals at the head of the for loop.
DrawEntry(text, rec_width, rec_height, scaleFactor, spacing, wordWrap, selectStart, selectLength) ==
    [pc |-> "loop", text |-> text, rec_width |-> rec_width, rec_height |-> rec_height,
     scaleFactor |-> scaleFactor, spacing |-> spacing, wordWrap |-> wordWrap,
     selectStart |-> selectStart, selectLength |-> selectLength,
     textOffsetY |-> 0, textOffsetX |-> 0,
     state |-> IF wordWrap THEN MEASURE_STATE ELSE DRAW_STATE,
     startLine |-> -1, endLine |-> -1, lastk |-> -1,
     i |-> 0, k |-> 0,
     lines |-> <<>>, cells |-> <<>>, trace |-> <<>>, broke |-> FALSE]

\* if ((textOffsetX != 0) || (codepoint != ' ')) textOffsetX += glyphWidth; i++, k++
DrawAdvance(d, codepoint, glyphWidth) ==
    [d EXCEPT !.textOffsetX = IF d.textOffsetX # 0 \/ codepoint # " "
                              THEN d.textOffsetX + glyphWidth ELSE d.textOffsetX,
              !.i = d.i + 1, !.k = d.k + 1]

\* if (state == DRAW_STATE) at the end of the MEASURE_STATE branch.
DrawSwitchToDraw(d, codepoint, glyphWidth) ==
    IF d.state = DRAW_STATE
    THEN DrawAdvance([d EXCEPT !.textOffsetX = 0, !.i = d.startLine,
                               !.lastk = d.k - 1, !.k = d.lastk],
                     codepoint, 0)
    ELSE DrawAdvance(d, codepoint, glyphWidth)

\* endLine in the overflow branch, from the endLine e the test for a space left.
DrawOverflowEndLine(d, e, codepointByteCount) ==
    IF (d.startLine + codepointByteCount)
          = (IF d.i = e THEN e - codepointByteCount ELSE e)
    THEN d.i - codepointByteCount
    ELSE IF d.i = e THEN e - codepointByteCount ELSE e

\* The three ways out of MEASURE_STATE, with endLine = e after the test for a
\* space.
DrawMeasureExit(d, e, codepoint, codepointByteCount, glyphWidth) ==
    IF (d.textOffsetX + glyphWidth) > d.rec_width
    THEN [d EXCEPT !.endLine = DrawOverflowEndLine(d, IF e < 1 THEN d.i ELSE e,
                                                   codepointByteCount),
                   !.state = DRAW_STATE]
    ELSE IF (d.i + 1) = Len(d.text)
         THEN [d EXCEPT !.endLine = d.i, !.state = DRAW_STATE]
         ELSE IF codepoint = "\n"
              THEN [d EXCEPT !.endLine = e, !.state = DRAW_STATE]
              ELSE [d EXCEPT !.endLine = e]

\* The branch of MEASURE_STATE.  d.i is already past the bytes of the codepoint.
DrawMeasureState(d, codepoint, codepointByteCount, glyphWidth) ==
    DrawSwitchToDraw(
        DrawMeasureExit(d, IF codepoint \in {" ", "\t", "\n"} THEN d.i ELSE d.endLine,
                        codepoint, codepointByteCount, glyphWidth),
        codepoint, glyphWidth)

\* DrawLineEnd that goes on with the next line at the vertical offset of this one.
DrawLineEnd_same_line(d, codepoint, glyphWidth) ==
    IF d.wordWrap /\ d.i = d.endLine
    THEN DrawAdvance([d EXCEPT !.textOffsetX = 0,
                               !.startLine = d.endLine, !.endLine = -1,
                               !.selectStart = @ + d.lastk - d.k,
                               !.k = d.lastk, !.state = MEASURE_STATE,
                               !.lines = Append(@, d.endLine)],
                     codepoint, 0)
    ELSE DrawAdvance(d, codepoint, glyphWidth)

\* if (wordWrap && (i == endLine)) { ... }, then the end of the loop body.
DrawLineEnd(d, codepoint, glyphWidth) ==
    IF d.wordWrap /\ d.i = d.endLine
    THEN DrawAdvance([d EXCEPT !.textOffsetY = @ + LineAdvance(d.scaleFactor),
                               !.textOffsetX = 0,
                               !.startLine = d.endLine, !.endLine = -1,
                               !.selectStart = @ + d.lastk - d.k,
                               !.k = d.lastk, !.state = MEASURE_STATE,
                               !.lines = Append(@, d.endLine)],
                     codepoint, 0)
    ELSE DrawAdvance(d, codepoint, glyphWidth)

\* The selection background and DrawTextCodepoint: the glyph (a space or tab
\* only as background) goes to the screen at the offsets; `break` if it would
\* reach below the rectangle.
DrawGlyph(d, codepoint, glyphWidth) ==
    IF (d.textOffsetY + baseSize * d.scaleFactor) > d.rec_height
    THEN [d EXCEPT !.pc = "done", !.broke = TRUE]
    ELSE DrawLineEnd(
             [d EXCEPT !.cells = Append(@,
                  [i |-> d.i, codepoint |-> codepoint,
                   x |-> d.textOffsetX, y |-> d.textOffsetY, width |-> glyphWidth,
                   selected |-> /\ d.selectStart >= 0 /\ d.k >= d.selectStart
                                /\ d.k < d.selectStart + d.selectLength])],
             codepoint, glyphWidth)

\* textOffsetY += (font.baseSize + font.baseSize/2)*scaleFactor; textOffsetX = 0;
DrawNewLine(d) ==
    [d EXCEPT !.textOffsetY = @ + LineAdvance(d.scaleFactor), !.textOffsetX = 0]

\* The branch of DRAW_STATE.
DrawDrawState(d, codepoint, glyphWidth) ==
    IF codepoint = "\n"
    THEN DrawLineEnd(IF ~d.wordWrap THEN DrawNewLine(d) ELSE d, codepoint, glyphWidth)
    ELSE DrawGlyph(IF ~d.wordWrap /\ (d.textOffsetX + glyphWidth) > d.rec_width
                   THEN DrawNewLine(d) ELSE d,
                   codepoint, glyphWidth)

\* The body after the codepoint is decoded and counted as codepointByteCount
\* bytes: i += (codepointByteCount - 1), glyphWidth, then the branch of the state.
DrawDecoded(d, codepoint, codepointByteCount, w) ==
    IF d.state = MEASURE_STATE
    THEN DrawMeasureState(
             [d EXCEPT !.i = d.i + (codepointByteCount - 1),
                       !.trace = Append(@, <<d.i, d.state>>)],
             codepoint, codepointByteCount,
             IF codepoint = "\n" THEN 0
             ELSE IF d.i + (codepointByteCount - 1) + 1 < Len(d.text)
                  THEN w + d.spacing ELSE w)
    ELSE DrawDrawState(
             [d EXCEPT !.i = d.i + (codepointByteCount - 1),
                       !.trace = Append(@, <<d.i, d.state>>)],
             codepoint,
             IF codepoint = "\n" THEN 0
             ELSE IF d.i + (codepointByteCount - 1) + 1 < Len(d.text)
                  THEN w + d.spacing ELSE w)

\* DrawByteCount that keeps the byte count the decoder reports for a bad byte.
DrawByteCount_as_decoded(cp) == cp.size

\* if (codepoint == 0x3f) codepointByteCount = 1;
DrawByteCount(cp) == IF cp.codepoint = "?" THEN 1 ELSE cp.size

\* (advanceX == 0) ? recs[index].width*scaleFactor : advanceX*scaleFactor
DrawGlyphWidth(codepoint, scaleFactor) ==
    IF advanceX(codepoint) = 0
    THEN recs_width(codepoint) * scaleFactor
    ELSE advanceX(codepoint) * scaleFactor

\* One pass through the body of the for loop, with its i++, k++.
DrawIteration(d) ==
    DrawDecoded(d, GetCodepoint(d.text, d.i).codepoint,
                DrawByteCount(GetCodepoint(d.text, d.i)),
                DrawGlyphWidth(GetCodepoint(d.text, d.i).codepoint, d.scaleFactor))

(***************************************************************************)
(* SpecDraw: a frame of a TextRenderer with max_width set, inside a        *)
(* RectContainer: RectContainer::render first asks get_bounding_box, which *)
(* measures the text, then Base::render draws it with the same arguments.  *)
(***************************************************************************)

InitDraw ==
    /\ kind = EmptyHeap.kind
    /\ parent = EmptyHeap.parent /\ children = EmptyHeap.children
    /\ position = EmptyHeap.position /\ initialized = EmptyHeap.initialized
    /\ active = EmptyHeap.active /\ visible = EmptyHeap.visible
    /\ rect = EmptyHeap.rect
    /\ padding_x = EmptyHeap.padding_x /\ padding_y = EmptyHeap.padding_y
    /\ grid = EmptyHeap.grid /\ level = EmptyHeap.level /\ player = EmptyHeap.player
    /\ grid_x = EmptyHeap.grid_x /\ grid_y = EmptyHeap.grid_y
    /\ selected = EmptyHeap.selected
    /\ updates = EmptyHeap.updates /\ renders = EmptyHeap.renders
    /\ crashed = FALSE
    /\ last = Call("new", NULL, NULL, NoRet)
    /\ calls = 0
    /\ \E text \in Texts(MaxLen - 1) \cup LongTexts, max_width \in Widths,
          max_height \in Heights, scaleFactor \in Scales, word_wrap \in BOOLEAN :
          /\ mt = MeasureEntry(text, max_width, scaleFactor, Spacing, word_wrap)
          /\ dt = DrawEntry(text, max_width, max_height, scaleFactor, Spacing,
                            word_wrap, 0, 0)

\* for (...; i < length; ...) { body }, once the measurement has returned.
DrawLoop ==
    /\ mt.pc = "done"
    /\ dt.pc = "loop" /\ dt.i < Len(dt.text)
    /\ dt' = DrawIteration(dt)
    /\ UNCHANGED <<Scene, mt>>

\* The loop ends at the end of the text.
DrawReturn ==
    /\ mt.pc = "done"
    /\ dt.pc = "loop" /\ ~(dt.i < Len(dt.text))
    /\ dt' = [dt EXCEPT !.pc = "done"]
    /\ UNCHANGED <<Scene, mt>>

NextDraw == MeasureLoop \/ MeasureReturn \/ DrawLoop \/ DrawReturn

SpecDraw == InitDraw /\ [][NextDraw]_vars

\* Both functions are plain sequential code: a loop that can take a step
\* takes it.
SpecDrawFair == SpecDraw /\ WF_vars(NextDraw)

(***************************************************************************)
(* Properties of the tree structure.                                       *)
(***************************************************************************)

Range(s) == {s[i] : i \in 1..Len(s)}
Occurrences(s, v) == Cardinality({i \in 1..Len(s) : s[i] = v})

\* The nodes reachable from the set S through children lists.
RECURSIVE Reach(_)
Reach(S) ==
    LET T == S \cup {c \in Ids : \E m \in S : c \in Range(children[m])}
    IN  IF T = S THEN S ELSE Reach(T)
Subtree(n) == Reach({n})

\* The nodes on the chain of parent back-references that starts at n.
RECURSIVE Chain(_)
Chain(S) ==
    LET T == S \cup ({parent[m] : m \in S} \ {NULL})
    IN  IF T = S THEN S ELSE Chain(T)

\* Following parent from n for k steps ends at a node without parent.
RECURSIVE ReachesRoot(_, _)
ReachesRoot(n, k) ==
    IF parent[n] = NULL THEN TRUE
    ELSE IF k = 0 THEN FALSE
    ELSE ReachesRoot(parent[n], k - 1)

RECURSIVE SumX(_), SumY(_)
SumX(S) == IF S = {} THEN 0 ELSE LET m == CHOOSE m \in S : TRUE
                                 IN  position[m].x + SumX(S \ {m})
SumY(S) == IF S = {} THEN 0 ELSE LET m == CHOOSE m \in S : TRUE
                                 IN  position[m].y + SumY(S \ {m})

\* C3: after p.remove_child(c) and after p.clear_children(), every node taken out
\* of p.children has an empty parent back-reference.
C3_DetachClearsParent ==
    [][(last'.op \in {"remove_child", "clear_children"} /\ ~crashed')
        => \A m \in Ids :
              (m \in Range(children[last'.n]) /\ m \notin Range(children'[last'.n]))
              => parent'[m] = NULL]_vars

\* C4: every node with a non-empty parent back-reference appears exactly once in
\* that parent's children and in no other children list, and every chain of parent
\* back-references ends at a parentless root.
C4_TreeInvariant ==
    ~crashed =>
        \A n \in Live :
            /\ parent[n] # NULL =>
                  /\ Occurrences(children[parent[n]], n) = 1
                  /\ \A q \in Live \ {parent[n]} : n \notin Range(children[q])
            /\ ReachesRoot(n, MaxNodes)

\* C6: after p.add_child(c), c is the last entry of p.children, c.parent is p, and
\* the subtree of c has every lifecycle flag that p has.
C6_AddChildReplays ==
    (last.op = "add_child" /\ ~crashed) =>
        /\ Len(children[last.n]) > 0
        /\ children[last.n][Len(children[last.n])] = last.c
        /\ parent[last.c] = last.n
        /\ initialized[last.n] => \A d \in Subtree(last.c) : initialized[d]
        /\ active[last.n] => \A d \in Subtree(last.c) : active[d]
        /\ visible[last.n] => \A d \in Subtree(last.c) : visible[d]

\* A child that has a child of its own was added to an initialized, active,
\* visible parent by the third call of the run, so that the flags of the
\* grandchild come from the replay.
C6_Witness ==
    /\ last.op = "add_child" /\ ~crashed /\ calls = 3
    /\ last.n # last.c
    /\ Cardinality(Subtree(last.c) \ {last.n}) = 2
    /\ initialized[last.n] /\ active[last.n] /\ visible[last.n]
    /\ \A d \in Subtree(last.c) : initialized[d] /\ active[d] /\ visible[d]

\* C10: get_global_position() of a node whose chain of ancestors ends at a root
\* is the component-wise sum of the offsets of the node and all its ancestors.
C10_GlobalPositionIsSum ==
    (last.op = "get_global_position" /\ ~crashed) =>
        /\ last.ret.x = SumX(Chain({last.n}))
        /\ last.ret.y = SumY(Chain({last.n}))

\* The position of a node two levels below its root was read after the node and
\* its parent were moved to different offsets.
C10_Witness ==
    /\ last.op = "get_global_position" /\ ~crashed
    /\ Cardinality(Chain({last.n})) = 3
    /\ position[last.n] # Vec(0, 0)
    /\ position[parent[last.n]] # Vec(0, 0)
    /\ position[last.n] # position[parent[last.n]]
    /\ last.ret = Vec(4, 8)

\* A parentless node returns its own position.
C10_WitnessRoot ==
    /\ last.op = "get_global_position" /\ ~crashed
    /\ parent[last.n] = NULL /\ last.ret = Vec(3, -2)

(***************************************************************************)
(* Properties of the grid game.                                            *)
(***************************************************************************)

\* Levels below node n in the tree spanned by the children lists ch.
RECURSIVE DepthOf(_, _, _)
DepthOf(ch, n, fuel) ==
    IF fuel = 0 \/ n = NULL \/ Len(ch[n]) = 0 THEN 0
    ELSE LET ds == {DepthOf(ch, ch[n][i], fuel - 1) : i \in 1..Len(ch[n])}
         IN  1 + CHOOSE d \in ds : \A e \in ds : e <= d

\* C1: init() on a node that is already initialized changes no initialized flag,
\* no number of children and not the depth of the tree.
C1_InitIdempotent ==
    [][(last'.op = "init" /\ initialized[last'.n] /\ ~crashed')
        => /\ initialized' = initialized
           /\ \A n \in Ids : Len(children'[n]) = Len(children[n])
           /\ DepthOf(children', TheRoot, MaxNodes) = DepthOf(children, TheRoot, MaxNodes)]_vars

\* The cell the pressed keys ask for.
KeyDX(keys) == (IF "D" \in keys THEN 1 ELSE 0) - (IF "A" \in keys THEN 1 ELSE 0)
KeyDY(keys) == (IF "S" \in keys THEN 1 ELSE 0) - (IF "W" \in keys THEN 1 ELSE 0)

\* C2: the player of a selected level moves by the pressed keys and stays within
\* the cells [0,6]x[0,5] of its 7x6 grid: a press beyond (6,5) does not move it.
C2_PlayerStaysInCells ==
    [][(last'.op = "update" /\ ~crashed')
        => \A p \in OfKind("Player") :
              (selected[level[p]] /\ updates'[p] > 0)
              => /\ grid_x'[p] = std_clamp(grid_x[p] + KeyDX(last'.keys), 0, GridWidth - 1)
                 /\ grid_y'[p] = std_clamp(grid_y[p] + KeyDY(last'.keys), 0, GridHeight - 1)
                 /\ grid_x'[p] \in 0..(GridWidth - 1)
                 /\ grid_y'[p] \in 0..(GridHeight - 1)]_vars

\* C7: an update leaves the player of an unselected level where it is, whatever
\* keys are pressed; selecting and unselecting a level moves no player; and the
\* player of a selected level moves from the cell it has stored.
C7_UnselectedPlayerKeepsCell ==
    [][/\ (last'.op = "update" /\ ~crashed')
           => \A p \in OfKind("Player") :
                 IF ~selected[level[p]]
                 THEN /\ grid_x'[p] = grid_x[p] /\ grid_y'[p] = grid_y[p]
                      /\ position'[p] = position[p]
                 ELSE updates'[p] > 0
                      => /\ grid_x'[p] = std_clamp(grid_x[p] + KeyDX(last'.keys), 0, GridWidth)
                         /\ grid_y'[p] = std_clamp(grid_y[p] + KeyDY(last'.keys), 0, GridHeight)
       /\ (last'.op \in {"select", "unselect"})
           => \A p \in OfKind("Player") :
                 /\ grid_x'[p] = grid_x[p] /\ grid_y'[p] = grid_y[p]
                 /\ position'[p] = position[p]]_vars

\* A frame with keys pressed has just run while a level is unselected whose
\* player had moved away from (0,0) before.
C7_Witness ==
    /\ last.op = "update" /\ last.keys # {} /\ ~crashed
    /\ \E p \in OfKind("Player") :
          /\ ~selected[level[p]] /\ updates[p] > 0
          /\ <<grid_x[p], grid_y[p]>> # <<0, 0>>
          /\ position[p] = Vec(grid_x[p] * cell_size_x, grid_y[p] * cell_size_y)

\* C5: a frame started by update() on an inactive node or on one of its ancestors
\* calls update() on no descendant of that node; the same for render() and an
\* invisible node.
C5_FlagsBlockSubtree ==
    /\ (last.op = "update" /\ ~crashed)
          => \A n \in Live : (~active[n] /\ last.n \in Chain({n}))
                => \A d \in Subtree(n) \ {n} : updates[d] = 0
    /\ (last.op = "render" /\ ~crashed)
          => \A n \in Live : (~visible[n] /\ last.n \in Chain({n}))
                => \A d \in Subtree(n) \ {n} : renders[d] = 0

\* A frame run from the root reached an inactive level, and so none of its
\* children, while it reached the player of the other level.
C5_Witness ==
    /\ last.op = "update" /\ last.n = TheRoot /\ ~crashed
    /\ \E n \in OfKind("Level") :
          /\ ~active[n] /\ updates[n] = 1 /\ Len(children[n]) = 3
          /\ \A d \in Subtree(n) \ {n} : updates[d] = 0
    /\ \E p \in OfKind("Player") : updates[p] = 1

\* The same for a render frame and an invisible container.
C5_WitnessRender ==
    /\ last.op = "render" /\ last.n = TheRoot /\ ~crashed
    /\ \E n \in OfKind("RectContainer") :
          /\ ~visible[n] /\ renders[n] = 1 /\ Len(children[n]) = 1
          /\ \A d \in Subtree(n) \ {n} : renders[d] = 0
    /\ \E p \in OfKind("Player") : renders[p] = 1

(***************************************************************************)
(* Properties of MeasureBoxedTextHeight.                                    *)
(***************************************************************************)

\* The codepoints of a text from byte i on, with the byte where each ends.
RECURSIVE Decode(_, _)
Decode(text, i) ==
    IF i >= Len(text) THEN <<>>
    ELSE LET cp == GetCodepoint(text, i)
             size == IF cp.codepoint = "?" THEN 1 ELSE cp.size
         IN  <<[codepoint |-> cp.codepoint, at |-> i + size - 1]>> \o Decode(text, i + size)

\* The advance of a whole text laid out on one line: every glyph's width, and
\* the spacing after every glyph but the last.
RECURSIVE SumWidths(_, _)
SumWidths(cps, scaleFactor) ==
    IF cps = <<>> THEN 0
    ELSE (IF advanceX(Head(cps).codepoint) = 0
          THEN recs_width(Head(cps).codepoint) ELSE advanceX(Head(cps).codepoint)) * scaleFactor
         + SumWidths(Tail(cps), scaleFactor)

TotalAdvance(m) ==
    LET cps == Decode(m.text, 0)
    IN  SumWidths(cps, m.scaleFactor) + (IF cps = <<>> THEN 0 ELSE (Len(cps) - 1) * m.spacing)

HasGlyph(text) == \E j \in 1..Len(Decode(text, 0)) : Decode(text, 0)[j].codepoint \notin {" ", "\t", "\n"}

\* A text that takes one line: it is not empty, has no newline, and its total
\* advance is below the width of the box.
SingleLine(m) ==
    /\ m.text # <<>>
    /\ \A j \in 1..Len(m.text) : m.text[j] # "\n"
    /\ TotalAdvance(m) < m.maxWidth

\* C8 as stated: a text that takes one line measures one line height, 1.5 times
\* the scaled base size.
C8_OneLineHeightAsStated ==
    (mt.pc = "done" /\ SingleLine(mt)) => mt.height = LineAdvance(mt.scaleFactor)

\* C8: a non-empty text without newline whose total advance is below max_width
\* measures the height of one glyph, the base size scaled by the scale factor,
\* when it has a glyph other than a space, and 0 when it has none; with and
\* without word wrap.
C8_OneLineMeasuresGlyphHeight ==
    (mt.pc = "done" /\ SingleLine(mt))
        => mt.height = IF HasGlyph(mt.text) THEN baseSize * mt.scaleFactor ELSE 0

C8_Witness ==
    /\ mt.pc = "done" /\ SingleLine(mt) /\ mt.wordWrap
    /\ mt.text = <<"a", " ", "a">> /\ mt.scaleFactor = 1 /\ mt.maxWidth = 12
    /\ mt.height = 10

C8_WitnessNoWrap ==
    /\ mt.pc = "done" /\ SingleLine(mt) /\ ~mt.wordWrap
    /\ Len(mt.text) = 2 /\ mt.height = 10

\* The text has one break opportunity, a space after its first word, and the
\* measuring pass overflowed once, past that space.
OneWrapAtSpace(m, s) ==
    /\ m.wordWrap
    /\ s \in 1..(Len(m.text) - 2)
    /\ m.text[s + 1] = " "
    /\ \A j \in 1..Len(m.text) : j # s + 1 => m.text[j] \notin {" ", "\t", "\n"}
    /\ Len(m.overflows) = 1
    /\ m.overflows[1] > s

\* C9: with word wrap on, a text whose only break opportunity is one space
\* after its first word and that overflows max_width once, past that space,
\* ends its first line at the space, emits no glyph after the space on the
\* first line (no word is split), and measures two line heights.
C9_WrapsAtSpaceTwoLineHeights ==
    \A s \in 0..(MaxLen + 1) :
        (mt.pc = "done" /\ OneWrapAtSpace(mt, s))
            => /\ Len(mt.lines) >= 1 /\ mt.lines[1] = s
               /\ \A j \in 1..Len(mt.emitted) :
                     mt.emitted[j].y = IF mt.emitted[j].i < s THEN 0
                                       ELSE LineAdvance(mt.scaleFactor)
               /\ mt.height = 2 * LineAdvance(mt.scaleFactor)

\* The part of C9 about the place of the break alone: the first line ends at the
\* space and no glyph after the space is emitted on the first line.
C9_BreakAtSpace ==
    \A s \in 0..(MaxLen + 1) :
        (mt.pc = "done" /\ OneWrapAtSpace(mt, s))
            => /\ Len(mt.lines) >= 1 /\ mt.lines[1] = s
               /\ \A j \in 1..Len(mt.emitted) :
                     mt.emitted[j].i > s => mt.emitted[j].y = LineAdvance(mt.scaleFactor)

(***************************************************************************)
(* Properties of the grid.                                                 *)
(***************************************************************************)

\* v clamped to lo..hi: in the range, unchanged when it was in the range, and
\* at the nearer end when it was not.
ClampedTo(v, r, lo, hi) ==
    /\ r \in lo..hi
    /\ v \in lo..hi => r = v
    /\ v < lo => r = lo
    /\ v > hi => r = hi

\* C11: for every grid with width, height >= 1 and all integers x, y, clamp_cell
\* leaves x in [0,width-1] and y in [0,height-1], clamp_point leaves x in
\* [0,width] and y in [0,height], values in range are unchanged, and the upper
\* bound of clamp_point is the one of clamp_cell plus one.
C11_ClampRanges ==
    /\ last.op = "clamp_cell"
          => /\ ClampedTo(last.x, last.ret.x, 0, last.width - 1)
             /\ ClampedTo(last.y, last.ret.y, 0, last.height - 1)
    /\ last.op = "clamp_point"
          => /\ ClampedTo(last.x, last.ret.x, 0, last.width)
             /\ ClampedTo(last.y, last.ret.y, 0, last.height)

\* clamp_cell on a grid 7 wide has brought an x beyond the grid to 6 and a
\* negative y to 0.
C11_Witness ==
    /\ last.op = "clamp_cell"
    /\ last.width = GridWidth /\ last.x > GridWidth /\ last.ret.x = GridWidth - 1
    /\ last.y < 0 /\ last.ret.y = 0

(***************************************************************************)
(* Properties of the lifecycle flags.                                      *)
(***************************************************************************)

\* C12: deactivate() clears and activate() sets `active` on the whole subtree
\* of its receiver, set_visible(v) stores v in `visible` on the whole subtree,
\* whatever the flags were; the flags of nodes outside the subtree, and the
\* other flag of every node, stay as they were.
C12_FlagsOverwriteSubtree ==
    [][/\ (last'.op \in {"activate", "deactivate"} /\ ~crashed')
           => /\ \A d \in Subtree(last'.n) : active'[d] = (last'.op = "activate")
              /\ \A d \in Slots \ Subtree(last'.n) : active'[d] = active[d]
              /\ visible' = visible
       /\ (last'.op \in {"show", "hide"} /\ ~crashed')
           => /\ \A d \in Subtree(last'.n) : visible'[d] = (last'.op = "show")
              /\ \A d \in Slots \ Subtree(last'.n) : visible'[d] = visible[d]
              /\ active' = active]_vars

\* activate() has run on a node with a child by the third call of the run, so
\* after a call that could clear the flag of the child alone, and a node
\* outside the subtree is inactive still.
C12_Witness ==
    /\ last.op = "activate" /\ ~crashed /\ calls = 3
    /\ Cardinality(Subtree(last.n)) = 2
    /\ \A d \in Subtree(last.n) : active[d]
    /\ \E d \in TreeIds \ Subtree(last.n) : ~active[d]

(***************************************************************************)
(* Properties of the RectContainer.                                        *)
(***************************************************************************)

Least(S) == CHOOSE m \in S : \A k \in S : m <= k
Greatest(S) == CHOOSE m \in S : \A k \in S : m >= k

RenderableChildren(n) ==
    {c \in Range(children[n]) \ {NULL} : IsRenderable(kind[c])}

\* The bounding boxes of the Renderable children of n, in the frame of n.
ChildBoxes(n) == {get_bounding_box(Heap, c, {}) : c \in RenderableChildren(n)}

\* A RectContainer with positive padding and a Renderable child has just been
\* rendered, its children standing where update() puts them.
UpdatedAndRendered(n) ==
    /\ kind[n] = "RectContainer" /\ ~crashed
    /\ last.op = "render" /\ last.n = n /\ visible[n]
    /\ padding_x[n] > 0 /\ padding_y[n] > 0
    /\ RenderableChildren(n) # {}
    /\ \A c \in Range(children[n]) : position[c] = Vec(padding_x[n], padding_y[n])

\* C13: after update() then render() of a RectContainer with positive padding
\* and a Renderable child, rect encloses the children's combined bounding box
\* with a margin of exactly padding_x left and right and padding_y top and
\* bottom.
C13_RectHasPaddingMargins ==
    \A n \in Ids : UpdatedAndRendered(n) =>
        /\ rect[n].x = Least({b.x : b \in ChildBoxes(n)}) - padding_x[n]
        /\ rect[n].x + rect[n].width
             = Greatest({b.x + b.width : b \in ChildBoxes(n)}) + padding_x[n]
        /\ rect[n].y = Least({b.y : b \in ChildBoxes(n)}) - padding_y[n]
        /\ rect[n].y + rect[n].height
             = Greatest({b.y + b.height : b \in ChildBoxes(n)}) + padding_y[n]

\* What the code leaves in rect for the text child of the root's container:
\* no margin to the seeded origin on the left, and two paddings past the
\* child's box on the right and at the bottom.
C13_Observed ==
    \A n \in Ids : UpdatedAndRendered(n) =>
        /\ rect[n].x = 0 /\ rect[n].y = 0
        /\ rect[n].x + rect[n].width
             = Greatest({b.x + b.width : b \in ChildBoxes(n)}) + 2 * padding_x[n]
        /\ rect[n].y + rect[n].height
             = Greatest({b.y + b.height : b \in ChildBoxes(n)}) + 2 * padding_y[n]

(***************************************************************************)
(* Properties of update() on inactive nodes.                               *)
(***************************************************************************)

\* No field of node d changes in the step.
FieldsKept(d) ==
    /\ position'[d] = position[d] /\ rect'[d] = rect[d]
    /\ grid_x'[d] = grid_x[d] /\ grid_y'[d] = grid_y[d]
    /\ active'[d] = active[d] /\ visible'[d] = visible[d]
    /\ initialized'[d] = initialized[d] /\ selected'[d] = selected[d]
    /\ children'[d] = children[d] /\ parent'[d] = parent[d]

InactiveUpdate == last'.op = "update" /\ ~active[last'.n] /\ ~crashed'

\* C17: update() on a node whose active flag is false changes no field of
\* that node or of any of its descendants, whatever its kind and whatever
\* keys are pressed.
C17_InactiveUpdateChangesNothing ==
    [][InactiveUpdate => \A d \in Subtree(last'.n) : FieldsKept(d)]_vars

\* What the code does guarantee: update() on an inactive node that is neither
\* a Player nor a RectContainer changes no field of its subtree.
C17_InactiveNodeOrLevelKept ==
    [][(InactiveUpdate /\ kind[last'.n] \notin {"Player", "RectContainer"})
          => \A d \in Subtree(last'.n) : FieldsKept(d)]_vars

(***************************************************************************)
(* Properties of remove_child.                                             *)
(***************************************************************************)

\* The list s without the entries equal to c, the others in their order.
Without(s, c) == SelectSeq(s, LAMBDA e : e # c)

\* p.remove_child(c) has just run on a children list built by add_child alone.
RemovedFromBuiltList ==
    /\ last'.op = "remove_child" /\ ~crashed'
    /\ NULL \notin Range(children[last'.n])

\* C19: after p.remove_child(c), c is not in p.children, every other entry is
\* a live child in its previous relative order, and the list is unchanged
\* when c was not a child of p; c may have been added more than once.
C19_RemoveChildRemovesAll ==
    [][RemovedFromBuiltList
          => children'[last'.n] = Without(children[last'.n], last'.c)]_vars

\* What the code does guarantee: the same, for a child that is in the list at
\* most once.
C19_RemoveChildRemovesOne ==
    [][(RemovedFromBuiltList /\ Occurrences(children[last'.n], last'.c) <= 1)
          => children'[last'.n] = Without(children[last'.n], last'.c)]_vars

(***************************************************************************)
(* Properties of the bounding boxes.                                       *)
(***************************************************************************)

\* The square of side 2 * Radius with its centre at point c.
SquareAround(c) == Rec(c.x - Radius, c.y - Radius, 2 * Radius, 2 * Radius)

CircleBoxRead ==
    /\ last.op = "get_global_bounding_box" /\ ~crashed
    /\ kind[last.n] = "CircleRenderer"

\* C18: get_global_bounding_box() of a CircleRenderer is the square of side
\* 2 * radius centred on get_global_position(), where render() draws the
\* circle, for any local position in any tree.
C18_BoxCentredOnCircle ==
    CircleBoxRead => last.ret = SquareAround(get_global_position(Heap, last.n, {}))

\* What the code returns: the square centred on the global position moved
\* once more by the local position.
C18_Observed ==
    CircleBoxRead =>
        last.ret = SquareAround(add_parent_pos(position[last.n],
                                               get_global_position(Heap, last.n, {})))

\* C20: get_children_bounding_box() is the smallest rectangle that contains
\* the local origin and the get_bounding_box() of every immediate Renderable
\* child; other children and deeper descendants do not count, and without a
\* Renderable child it is the empty rectangle at the origin.
C20_ChildrenBoxIsHullWithOrigin ==
    (last.op = "get_children_bounding_box" /\ ~crashed) =>
        /\ last.ret.x = Least({0} \cup {b.x : b \in ChildBoxes(last.n)})
        /\ last.ret.y = Least({0} \cup {b.y : b \in ChildBoxes(last.n)})
        /\ last.ret.x + last.ret.width
             = Greatest({0} \cup {b.x + b.width : b \in ChildBoxes(last.n)})
        /\ last.ret.y + last.ret.height
             = Greatest({0} \cup {b.y + b.height : b \in ChildBoxes(last.n)})
        /\ RenderableChildren(last.n) = {} => last.ret = Rec(0, 0, 0, 0)

\* The box of a container has been read whose child is a circle that lies
\* below the origin and has a circle of its own away from the origin: the
\* result reaches from the origin to the bottom of the child's box, and from
\* the left to the right edge of it.
C20_Witness ==
    /\ last.op = "get_children_bounding_box" /\ ~crashed
    /\ kind[last.n] = "RectContainer"
    /\ \E c \in RenderableChildren(last.n) :
          /\ position[c].y - Radius > 0 /\ position[c].x - Radius < 0
          /\ RenderableChildren(c) # {}
          /\ last.ret = Rec(position[c].x - Radius, 0,
                            2 * Radius, position[c].y + Radius)

\* The same read on a container whose children are a Node and a circle.
C20_WitnessNode ==
    /\ last.op = "get_children_bounding_box" /\ ~crashed
    /\ kind[last.n] = "RectContainer"
    /\ \E c \in Range(children[last.n]) : kind[c] = "Node"
    /\ \E c \in RenderableChildren(last.n) :
          last.ret = Rec(position[c].x - Radius, 0, 2 * Radius, position[c].y + Radius)

(***************************************************************************)
(* Properties of DrawTextBoxedSelectable and MeasureBoxedTextHeight.       *)
(***************************************************************************)

BothReturned == mt.pc = "done" /\ dt.pc = "done"

\* The pass of the loop of machine m (m2 after it) decodes a bad byte and goes
\* on with the next pass without rewinding to the start of the line.
BadBytePass(m, m2) ==
    /\ m.pc = "loop" /\ m2.pc = "loop" /\ m2 # m
    /\ GetCodepoint(m.text, m.i).codepoint = "?"
    /\ ~(m.state = MEASURE_STATE /\ m2.state = DRAW_STATE)

\* C14: for every text, malformed ones included, every width, also widths
\* smaller than a glyph, and both word-wrap settings the loops of
\* MeasureBoxedTextHeight and DrawTextBoxedSelectable come to an end, and a
\* pass that fails to decode moves the scan index on by exactly one byte.
C14_LoopsTerminate ==
    /\ <>BothReturned
    /\ [][/\ BadBytePass(mt, mt') => mt'.i = mt.i + 1
          /\ BadBytePass(dt, dt') => dt'.i = dt.i + 1]_vars

\* Both loops have ended on a lead byte without its continuation, a letter
\* and a lone continuation byte, in a box narrower than any glyph: all three
\* glyphs are on the screen.
C14_Witness ==
    /\ BothReturned /\ dt.text = <<"L", "a", "C">>
    /\ dt.rec_width = 1 /\ dt.wordWrap /\ dt.rec_height = FLT_MAX
    /\ [j \in 1..Len(dt.cells) |-> dt.cells[j].codepoint] = <<"?", "a", "?">>

\* The glyphs DrawTextCodepoint puts on the screen: all but spaces and tabs.
Drawn(d) == {j \in 1..Len(d.cells) : d.cells[j].codepoint \notin {" ", "\t"}}

\* The greatest bottom edge of a glyph on the screen, 0 if there is none.
GreatestBottom(d) ==
    Greatest({0} \cup {d.cells[j].y + baseSize * d.scaleFactor : j \in Drawn(d)})

\* C15: with a rectangle of unbounded height, MeasureBoxedTextHeight goes
\* through the same passes in the same MEASURE/DRAW states and breaks the
\* lines at the same places as DrawTextBoxedSelectable, and returns the
\* greatest bottom edge of the glyphs drawn, 0 if none is drawn.
C15_MeasureMirrorsDraw ==
    (BothReturned /\ dt.rec_height = FLT_MAX) =>
        /\ mt.trace = dt.trace
        /\ mt.lines = dt.lines
        /\ mt.height = GreatestBottom(dt)

\* A text wrapped into two lines has been measured and drawn: the height is
\* the bottom of the glyph on the second line.
C15_Witness ==
    /\ BothReturned /\ dt.rec_height = FLT_MAX /\ dt.wordWrap
    /\ dt.text = <<"a", " ", "a">> /\ dt.rec_width = 5 /\ dt.scaleFactor = 1
    /\ Len(dt.lines) = 2 /\ mt.height = 25
    /\ \E j \in Drawn(dt) : dt.cells[j].y = 15

\* The glyphs drawn at vertical offset y.
OnLine(d, y) == {j \in Drawn(d) : d.cells[j].y = y}

\* The right end of the glyphs drawn at vertical offset y, the spacing after
\* the last one not counted.
LineExtent(d, y) ==
    Greatest({d.cells[j].x + DrawGlyphWidth(d.cells[j].codepoint, d.scaleFactor)
                 : j \in OnLine(d, y)})

\* C16: in word-wrap mode every drawn line of more than one glyph has a total
\* advance of at most the width of the rectangle.
C16_WrappedLinesFit ==
    dt.pc # "idle" /\ dt.wordWrap =>
        \A j \in Drawn(dt) :
            Cardinality(OnLine(dt, dt.cells[j].y)) > 1
                => LineExtent(dt, dt.cells[j].y) <= dt.rec_width

\* What the code does guarantee: the same, in a rectangle at least as wide as
\* the widest glyph of the font with its spacing.
C16_WrappedLinesFitWideBox ==
    (dt.pc # "idle" /\ dt.wordWrap
        /\ dt.rec_width >= advanceX("W") * dt.scaleFactor + dt.spacing) =>
        \A j \in Drawn(dt) :
            Cardinality(OnLine(dt, dt.cells[j].y)) > 1
                => LineExtent(dt, dt.cells[j].y) <= dt.rec_width

====
